---- MODULE Spec2Model ----
(***************************************************************************)
(* A model of the leech-only BitTorrent client in src/bittorrent:          *)
(* the swarm coordinator (Client, client.py) and the peer session          *)
(* (Peer, peer.py).                                                        *)
(*                                                                         *)
(* The session's callbacks get_work / put_work / put_result are modelled   *)
(* at the signature Peer declares and uses (peer.py 115-117, 152, 162,     *)
(* 244, 265, 270): the session passes itself as first argument, and the    *)
(* coordinator methods _get_work / _put_work / _put_result receive that    *)
(* Peer as `peer`.                                                         *)
(*                                                                         *)
(* Sizes are scaled: a byte of the model stands for a run of bytes of the  *)
(* program, and SHA-1 is modelled as collision free (two buffers have the  *)
(* same digest iff they are equal).                                        *)
(***************************************************************************)
EXTENDS Integers, Sequences, FiniteSets, TLC

\* ---------------------------------------------------------------- bounds
PieceCount == 2          \* torrent.piece_count of the modelled torrents
MaxWrites == 2           \* the per-piece part-file write counter saturates here
BitCount == 10           \* indices 0 .. BitCount - 1 are set in a Bitfield
MaxPayload == 2          \* longest payload of a PeerMessage written and read back
MaxPieceLength == 3      \* info['piece length'] of the torrents parsed is 1 .. this
MaxFileSize == 9         \* total size of the torrents parsed is 1 .. this

Pieces == 0 .. (PieceCount - 1)
Peers == {"A", "B"}
\* Python's None, where a piece index is expected
None == 0 - 1

\* Client(piece_chunk_size=...), scaled from 2 ** 14
chunk_size == 2

\* ------------------------------------------------------------- variables
VARIABLES
    cfg,                \* constructor arguments and environment, fixed by Init
    tmp_dir,            \* the .tmp directory: part file of each piece
    writes,             \* number of part-file writes (and progress logs) per piece
    cpc,                \* position of Client.download
    work_queue,         \* Client.work_queue
    work_done,          \* Client.work_done
    workers_per_work,   \* Client.workers_per_work (a defaultdict: its keys matter)
    pc,                 \* position of each Peer.start
    work,               \* the piece a session holds (local `work` of Peer.start)
    bitfield,           \* Peer.bitfield.value
    choked,             \* Peer.choked
    cancel,             \* Peer.cancelable.cancel
    dl,                 \* locals of Peer._download
    wire,               \* bytes in flight from the remote peer, as whole frames
    calc,               \* the call of a function outside the swarm: input, result
    sent,               \* ids of the frames a session wrote for its piece (PeerSpec)
    offset              \* where a connection's byte stream stands in its next frame

vars == << cfg, tmp_dir, writes, cpc, work_queue, work_done, workers_per_work,
           pc, work, bitfield, choked, cancel, dl, wire, calc, sent, offset >>

\* ------------------------------------------------------------ PeerMessage
M_KEEP_ALIVE == -1
M_CHOKE == 0
M_UNCHOKE == 1
M_INTERESTED == 2
M_NOT_INTERESTED == 3
M_HAVE == 4
M_BITFIELD == 5
M_REQUEST == 6
M_PIECE == 7
M_CANCEL == 8

\* A decoded frame.  index/begin/block are the fields of a PIECE payload,
\* index alone the HAVE payload, block the BITFIELD payload.
Msg(id, index, begin, block) ==
    [message_id |-> id, index |-> index, begin |-> begin, block |-> block]

Plain(id) == Msg(id, 0, 0, << >>)

\* ----------------------------------------------------------------- bytes
Min(a, b) == IF a < b THEN a ELSE b

RECURSIVE Pow2(_)
Pow2(n) == IF n = 0 THEN 1 ELSE 2 * Pow2(n - 1)

\* mask = 1 << (7 - r)
Mask(index) == Pow2(7 - (index % 8))

\* mask & byte > 0
BitSet(byte, mask) == (byte \div mask) % 2 = 1

\* byte ^ mask
Xor(byte, mask) == IF BitSet(byte, mask) THEN byte - mask ELSE byte + mask

\* has_piece with the bits of a byte counted from the low end.
has_piece_low_bit_first(value, index) ==
    LET q == index \div 8
    IN  IF q >= Len(value) THEN FALSE
        ELSE BitSet(value[q + 1], Pow2(index % 8))

\* Bitfield.has_piece
has_piece(value, index) ==
    LET q == index \div 8
    IN  IF q >= Len(value) THEN FALSE ELSE BitSet(value[q + 1], Mask(index))

\* set_piece with the bits of a byte counted from the low end.
set_piece_low_bit_first(value, index) ==
    LET q == index \div 8
        ext == IF q >= Len(value)
               THEN value \o [i \in 1 .. (q - Len(value) + 1) |-> 0]
               ELSE value
    IN  [ext EXCEPT ![q + 1] = Xor(ext[q + 1], Pow2(index % 8))]

\* Bitfield.set_piece
set_piece(value, index) ==
    LET q == index \div 8
        ext == IF q >= Len(value)
               THEN value \o [i \in 1 .. (q - Len(value) + 1) |-> 0]
               ELSE value
    IN  [ext EXCEPT ![q + 1] = Xor(ext[q + 1], Mask(index))]

\* The one-byte bitfield a remote peer holding the pieces S advertises.
RECURSIVE ByteOf(_)
ByteOf(S) ==
    IF S = {} THEN 0
    ELSE LET i == CHOOSE x \in S : TRUE IN Mask(i) + ByteOf(S \ {i})

\* ----------------------------------------------------------------- torrent
\* Piece.size
SizeOf(p) == cfg.size[p]

\* The payload of piece p: size bytes, none of them the zero a fresh
\* bytearray(work.size) holds.
Content(p) == [i \in 1 .. SizeOf(p) |-> p + 1]

\* What a corrupting peer sends in place of a byte: a value no payload holds.
BadByte == PieceCount + 1

\* self._sha1(downloaded_data) == work.sha1
HashMatches(data, p) == data = Content(p)

\* _has_finished that is content one piece short.
has_finished_one_short == Cardinality(work_done) >= PieceCount - 1

\* Client._has_finished
has_finished == Cardinality(work_done) = PieceCount

\* ------------------------------------------------------------ coordinator
\* self.workers_per_work[p]: reading a defaultdict(list)
Workers(w, p) == IF p \in DOMAIN w THEN w[p] ELSE << >>

\* ... which creates the keys it reads
Touch(w, S) == [p \in (DOMAIN w) \cup S |-> Workers(w, p)]

InList(seq, x) == \E i \in 1 .. Len(seq) : seq[i] = x

\* list.remove(x) that removes nothing.
RemoveFirstKept(seq, x) == seq

\* list.remove(x): drops the first occurrence
RemoveFirst(seq, x) ==
    LET i == CHOOSE k \in 1 .. Len(seq) :
                 seq[k] = x /\ \A j \in 1 .. (k - 1) : seq[j] # x
    IN  SubSeq(seq, 1, i - 1) \o SubSeq(seq, i + 1, Len(seq))

\* bitfield.size == 0 or bitfield.has_piece(work.index)
MayHave(bf, p) == Len(bf) = 0 \/ has_piece(bf, p)

\* The test of the cap with <= for <.
HasSlotInclusive(workers) == Len(workers) <= cfg.max_peers_per_piece

\* len(workers) < self.max_peers_per_piece
HasSlot(workers) == Len(workers) < cfg.max_peers_per_piece

\* _get_work, first comprehension (client.py 82-89)
QueueCandidates(bf) ==
    {p \in work_queue : MayHave(bf, p) /\ HasSlot(Workers(workers_per_work, p))}

\* the keys the first comprehension creates: the `and` reads
\* workers_per_work[work] only when the bitfield test passed
Touched(bf) == {p \in work_queue : MayHave(bf, p)}

\* _get_work, second comprehension (client.py 92-96)
FallbackCandidates(bf) ==
    LET w == Touch(workers_per_work, Touched(bf))
    IN  {p \in DOMAIN w : HasSlot(w[p])}

\* get_work drawing from both comprehensions at once.
CandidatesMerged(bf) == QueueCandidates(bf) \cup FallbackCandidates(bf)

\* the list random.choice draws from; empty: return None
Candidates(bf) ==
    IF QueueCandidates(bf) # {} THEN QueueCandidates(bf) ELSE FallbackCandidates(bf)

\* Client._get_work returning `chosen` to session s
get_work(s, chosen) ==
    /\ chosen \in Candidates(bitfield[s])
    /\ workers_per_work' =
           [Touch(workers_per_work, Touched(bitfield[s]) \cup {chosen})
               EXCEPT ![chosen] = Append(@, s)]
    /\ work_queue' = work_queue \ {chosen}

\* Client._get_work returning None
get_work_none(s) ==
    /\ Candidates(bitfield[s]) = {}
    /\ workers_per_work' = Touch(workers_per_work, Touched(bitfield[s]))
    /\ work_queue' = work_queue

\* list.remove raises ValueError when the peer is not in the list
PutWorkRaises(s, p) == ~InList(Workers(workers_per_work, p), s)

\* put_work that forgets the queue.
put_work_unqueued(s, p) ==
    /\ work_queue' = work_queue
    /\ workers_per_work' =
           IF PutWorkRaises(s, p) THEN Touch(workers_per_work, {p})
           ELSE [workers_per_work EXCEPT ![p] = RemoveFirst(@, s)]

\* put_work that empties the worker list of the piece.
put_work_clears(s, p) ==
    /\ work_queue' = work_queue \cup {p}
    /\ workers_per_work' = [Touch(workers_per_work, {p}) EXCEPT ![p] = << >>]

\* Client._put_work: the queue gets the piece first, then the worker list
\* loses the peer (or the remove raises, the key created and the queue changed)
put_work(s, p) ==
    /\ work_queue' = work_queue \cup {p}
    /\ workers_per_work' =
           IF PutWorkRaises(s, p) THEN Touch(workers_per_work, {p})
           ELSE [workers_per_work EXCEPT ![p] = RemoveFirst(@, s)]

\* the workers _put_result calls worker.cancel() on
OtherWorkers(s, p) ==
    {x \in Peers : x # s /\ InList(Workers(workers_per_work, p), x)}

\* worker.cancel(): Peer defines cancel_work and the attribute cancelable, and
\* no cancel, so the call raises AttributeError for the first other worker
PutResultRaises(s, p) == OtherWorkers(s, p) # {}

\* the part file put_result writes: named by the digest, holding `data`
PartFile(p, data) == IF HashMatches(data, p) THEN "good" ELSE "bad"

\* put_result that assigns work_done where it should add to it.
put_result_assigns(s, p, data) ==
    /\ work_queue' = work_queue \ {p}
    /\ workers_per_work' =
           [q \in (DOMAIN workers_per_work) \ {p} |-> workers_per_work[q]]
    /\ work_done' = {p}
    /\ writes' = [writes EXCEPT ![p] = Min(@ + 1, MaxWrites)]
    /\ tmp_dir' = [tmp_dir EXCEPT ![p] = PartFile(p, data)]

\* Client._put_result, all of it: the locked section and the file write
put_result(s, p, data) ==
    /\ work_queue' = work_queue \ {p}
    /\ IF PutResultRaises(s, p)
       THEN /\ workers_per_work' = workers_per_work
            /\ UNCHANGED << work_done, writes, tmp_dir >>
       ELSE /\ workers_per_work' =
                   [q \in (DOMAIN workers_per_work) \ {p} |-> workers_per_work[q]]
            /\ work_done' = work_done \cup {p}
            /\ writes' = [writes EXCEPT ![p] = Min(@ + 1, MaxWrites)]
            /\ tmp_dir' = [tmp_dir EXCEPT ![p] = PartFile(p, data)]

\* ------------------------------------------------- calls outside the swarm
\* no call made
NoCall == [op |-> "none"]

\* the result of a call: a value, None, or an exception that leaves it
Returns(v) == [kind |-> "value", value |-> v]
ReturnsNone == [kind |-> "none", value |-> {}]
Raises == [kind |-> "raise", value |-> {}]

\* Bitfield(): the empty bitfield, no index set
BitfieldNew ==
    /\ calc = NoCall
    /\ calc' = [op |-> "bitfield", value |-> << >>, indices |-> {}]
    /\ UNCHANGED << cfg, tmp_dir, writes, cpc, work_queue, work_done,
                    workers_per_work, pc, work, bitfield, choked, cancel, dl,
                    wire, sent, offset >>

\* Bitfield.set_piece(i) for an index not set before
BitfieldSetPiece ==
    /\ calc.op = "bitfield"
    /\ \E i \in (0 .. (BitCount - 1)) \ calc.indices :
           calc' = [calc EXCEPT !.value = set_piece(@, i),
                                !.indices = @ \cup {i}]
    /\ UNCHANGED << cfg, tmp_dir, writes, cpc, work_queue, work_done,
                    workers_per_work, pc, work, bitfield, choked, cancel, dl,
                    wire, sent, offset >>

\* _download, lines 234-237: HAVE(index) is read by a session whose remote
\* bitfield holds calc.value (left there by a BITFIELD or by earlier HAVEs)
HaveReceived ==
    /\ calc.op = "bitfield"
    /\ \E index \in 0 .. (BitCount - 1) :
           calc' = [op |-> "have", index |-> index, before |-> calc.value,
                    value |-> set_piece(calc.value, index)]
    /\ UNCHANGED << cfg, tmp_dir, writes, cpc, work_queue, work_done,
                    workers_per_work, pc, work, bitfield, choked, cancel, dl,
                    wire, sent, offset >>

\* ------------------------------------------------------ PeerMessage codec
\* the byte values payloads are made of
PayloadBytes == {0, 1, 255}

\* all sequences over S of length at most n
RECURSIVE SeqsUpTo(_, _)
SeqsUpTo(S, n) ==
    IF n = 0 THEN {<< >>}
    ELSE LET shorter == SeqsUpTo(S, n - 1)
         IN  shorter \cup {Append(q, b) : q \in {x \in shorter : Len(x) = n - 1},
                                           b \in S}

\* n.to_bytes(4, 'big')
U32BE(n) ==
    << (n \div 16777216) % 256, (n \div 65536) % 256, (n \div 256) % 256, n % 256 >>

\* int.from_bytes(b, 'big')
RECURSIVE FromBytesBE(_)
FromBytesBE(b) ==
    IF b = << >> THEN 0
    ELSE 256 * FromBytesBE(SubSeq(b, 1, Len(b) - 1)) + b[Len(b)]

\* PeerMessage(message_id, payload)
PeerMessage(id, payload) == [message_id |-> id, payload |-> payload]

\* PeerMessage.write: the bytes sent; int.to_bytes(1, 'big') raises
\* OverflowError outside 0 .. 255
PeerMessageWrite(m) ==
    IF m.message_id < 0 \/ m.message_id > 255 THEN Raises
    ELSE LET data == << m.message_id >> \o m.payload
         IN  Returns(U32BE(Len(data)) \o data)

\* PeerMessage.read of a stream that holds all the bytes it asks for
PeerMessageRead(stream) ==
    LET message_size == FromBytesBE(SubSeq(stream, 1, 4))
        data == SubSeq(stream, 5, 4 + message_size)
    IN  IF message_size = 0 THEN PeerMessage(M_KEEP_ALIVE, << >>)
        ELSE PeerMessage(data[1], Tail(data))

\* a message is written and the bytes are read back
CodecRoundTrip ==
    /\ calc = NoCall
    /\ \E id \in M_KEEP_ALIVE .. M_CANCEL, payload \in SeqsUpTo(PayloadBytes, MaxPayload) :
           LET m == PeerMessage(id, payload)
               written == PeerMessageWrite(m)
           IN  calc' = [op |-> "codec", message |-> m, written |-> written,
                        read |-> IF written.kind = "value"
                                 THEN Returns(PeerMessageRead(written.value))
                                 ELSE Raises]
    /\ UNCHANGED << cfg, tmp_dir, writes, cpc, work_queue, work_done,
                    workers_per_work, pc, work, bitfield, choked, cancel, dl,
                    wire, sent, offset >>

\* a stream that starts with a length prefix of 0 is read
ReadZeroLength ==
    /\ calc = NoCall
    /\ \E rest \in SeqsUpTo(PayloadBytes, MaxPayload) :
           calc' = [op |-> "read", stream |-> U32BE(0) \o rest,
                    read |-> PeerMessageRead(U32BE(0) \o rest)]
    /\ UNCHANGED << cfg, tmp_dir, writes, cpc, work_queue, work_done,
                    workers_per_work, pc, work, bitfield, choked, cancel, dl,
                    wire, sent, offset >>

\* ------------------------------------------------------ Torrent.from_bytes
\* Torrent._SHA1_SIZE
SHA1_SIZE == 20

\* range(start, stop, step) as a sequence
RECURSIVE Range(_, _, _)
Range(start, stop, step) ==
    IF start >= stop THEN << >>
    ELSE << start >> \o Range(start + step, stop, step)

\* the pieces loop of src/bittorrent/torrent.py, lines 113-119: the list of
\* Piece(index, size, ...) for a metainfo whose `pieces` string has
\* pieces_len bytes
from_bytes_pieces(file_size, piece_length, pieces_len) ==
    LET piece_count == pieces_len \div 20
        r == Range(0, piece_count, 1)
    IN  [k \in 1 .. Len(r) |->
            [index |-> r[k],
             size |-> IF r[k] < piece_count - 1 THEN piece_length
                      ELSE file_size - piece_length * (piece_count - 1)]]

\* the pieces loop of src/client/torrent.py, lines 106-117: i runs over the
\* byte offsets of the hashes, piece_index counts the pieces
client_from_bytes_pieces(file_size, piece_length, pieces_len) ==
    LET piece_count == pieces_len \div SHA1_SIZE
        r == Range(0, pieces_len, SHA1_SIZE)
    IN  [k \in 1 .. Len(r) |->
            [index |-> k - 1,
             size |-> IF r[k] < piece_count - 1 THEN piece_length
                      ELSE file_size - piece_length * (piece_count - 1)]]

\* a torrent of file_size bytes cut in pieces of piece_length bytes is parsed
TorrentFromBytes ==
    /\ calc = NoCall
    /\ \E file_size \in 1 .. MaxFileSize, piece_length \in 1 .. MaxPieceLength,
          variant \in {"bittorrent", "client"} :
           LET count == (file_size + piece_length - 1) \div piece_length
               pieces_len == SHA1_SIZE * count
           IN  calc' = [op |-> "from_bytes", variant |-> variant,
                        file_size |-> file_size, piece_length |-> piece_length,
                        piece_count |-> pieces_len \div SHA1_SIZE,
                        pieces |->
                            IF variant = "bittorrent"
                            THEN from_bytes_pieces(file_size, piece_length, pieces_len)
                            ELSE client_from_bytes_pieces(file_size, piece_length,
                                                          pieces_len)]
    /\ UNCHANGED << cfg, tmp_dir, writes, cpc, work_queue, work_done,
                    workers_per_work, pc, work, bitfield, choked, cancel, dl,
                    wire, sent, offset >>

\* ----------------------------------------------------------------- bencode
\* src/client/bencode.py.  A BenType value is a tagged record of which the
\* field of its type is read; a byte string is a sequence of bytes, a str (a
\* dict key) a sequence of code points.
BInt(n) == [t |-> "int", n |-> n, b |-> << >>, items |-> << >>, entries |-> << >>]
BBytes(b) == [t |-> "bytes", n |-> 0, b |-> b, items |-> << >>, entries |-> << >>]
BList(items) == [t |-> "list", n |-> 0, b |-> << >>, items |-> items, entries |-> << >>]
BDict(entries) == [t |-> "dict", n |-> 0, b |-> << >>, items |-> << >>, entries |-> entries]

Max(a, b) == IF a > b THEN a ELSE b

\* str(n) for n >= 0, as ASCII bytes
RECURSIVE NatStr(_)
NatStr(n) == IF n < 10 THEN << 48 + n >> ELSE NatStr(n \div 10) \o << 48 + (n % 10) >>

\* f'{n}'.encode()
IntStr(n) == IF n < 0 THEN << 45 >> \o NatStr(0 - n) ELSE NatStr(n)

\* str.encode(): UTF-8, one byte below U+0080, two below U+0800
RECURSIVE Utf8Encode(_)
Utf8Encode(chars) ==
    IF chars = << >> THEN << >>
    ELSE LET c == Head(chars)
         IN  (IF c < 128 THEN << c >> ELSE << 192 + (c \div 64), 128 + (c % 64) >>)
                 \o Utf8Encode(Tail(chars))

\* bytes.decode(): UTF-8 read back; UnicodeDecodeError on a broken sequence
RECURSIVE Utf8Decode(_)
Utf8Decode(b) ==
    IF b = << >> THEN Returns(<< >>)
    ELSE IF b[1] < 128
         THEN LET rest == Utf8Decode(Tail(b))
              IN  IF rest.kind = "raise" THEN Raises
                  ELSE Returns(<< b[1] >> \o rest.value)
    ELSE IF b[1] \in 194 .. 223 /\ Len(b) >= 2 /\ b[2] \in 128 .. 191
         THEN LET rest == Utf8Decode(SubSeq(b, 3, Len(b)))
              IN  IF rest.kind = "raise" THEN Raises
                  ELSE Returns(<< (b[1] - 192) * 64 + (b[2] - 128) >> \o rest.value)
    ELSE Raises

\* bencode, lines 6-24; bencode_entries is the join of line 21 and
\* bencode_items the join of line 17
RECURSIVE bencode(_), bencode_items(_), bencode_entries(_)
bencode(data) ==
    IF data.t = "int" THEN << 105 >> \o IntStr(data.n) \o << 101 >>
    ELSE IF data.t = "bytes" THEN IntStr(Len(data.b)) \o << 58 >> \o data.b
    ELSE IF data.t = "list" THEN << 108 >> \o bencode_items(data.items) \o << 101 >>
    ELSE << 100 >> \o bencode_entries(data.entries) \o << 101 >>

bencode_items(items) ==
    IF items = << >> THEN << >>
    ELSE bencode(Head(items)) \o bencode_items(Tail(items))

\* a key is a str: f'{len(data)}:{data}'.encode(), line 11
bencode_entries(entries) ==
    IF entries = << >> THEN << >>
    ELSE LET k == Head(entries).key
         IN  IntStr(Len(k)) \o << 58 >> \o Utf8Encode(k)
                 \o bencode(Head(entries).value) \o bencode_entries(Tail(entries))

\* data[a:b] for a >= 0, with Python's reading of a negative b
PySlice(data, a, b) ==
    LET n == Len(data)
        lo == Min(a, n)
        hi == IF b < 0 THEN Max(n + b, 0) ELSE Min(b, n)
    IN  IF lo >= hi THEN << >> ELSE SubSeq(data, lo + 1, hi)

\* data.find(byte, start): the first index from start on, or -1
Find(data, byte, start) ==
    IF \E k \in start .. (Len(data) - 1) : data[k + 1] = byte
    THEN CHOOSE k \in start .. (Len(data) - 1) :
             data[k + 1] = byte /\ \A j \in start .. (k - 1) : data[j + 1] # byte
    ELSE 0 - 1

\* int(b) of ASCII bytes: digits with an optional sign, ValueError otherwise
RECURSIVE DigitsValue(_)
DigitsValue(b) ==
    IF b = << >> THEN 0 ELSE 10 * DigitsValue(SubSeq(b, 1, Len(b) - 1)) + (b[Len(b)] - 48)

ParseInt(b) ==
    LET digits == IF b # << >> /\ b[1] \in {43, 45} THEN Tail(b) ELSE b
    IN  IF digits = << >> \/ \E k \in 1 .. Len(digits) : digits[k] \notin 48 .. 57
        THEN Raises
        ELSE Returns(IF b[1] = 45 THEN 0 - DigitsValue(digits) ELSE DigitsValue(digits))

\* (value, size) as _decode_bencode returns it
Decoded(value, next) == [kind |-> "value", value |-> value, next |-> next]

\* _dict[key] = value
SetEntry(entries, key, value) ==
    IF \E k \in 1 .. Len(entries) : entries[k].key = key
    THEN [k \in 1 .. Len(entries) |->
             IF entries[k].key = key THEN [key |-> key, value |-> value]
             ELSE entries[k]]
    ELSE Append(entries, [key |-> key, value |-> value])

\* _decode_bencode, lines 33-69; decode_list is the loop of lines 53-56 and
\* decode_dict the loop of lines 61-67
RECURSIVE decode_at(_, _), decode_list(_, _, _), decode_dict(_, _, _)
decode_at(data, start) ==
    IF Len(data) = 0 THEN Decoded(BBytes(<< >>), 0)
    ELSE IF start >= Len(data) THEN Raises
    ELSE LET char == data[start + 1]
         IN  IF char \in 48 .. 57
             THEN LET idx == Find(data, 58, start)
                      length == ParseInt(PySlice(data, start, idx))
                  IN  IF length.kind = "raise" THEN Raises
                      ELSE Decoded(BBytes(PySlice(data, idx + 1,
                                                  idx + 1 + length.value)),
                                   idx + length.value + 1)
             ELSE IF char = 105
             THEN LET idx == Find(data, 101, start)
                      digits == PySlice(data, start + 1, idx)
                      n == IF digits = << >> THEN Returns(0) ELSE ParseInt(digits)
                  IN  IF n.kind = "raise" THEN Raises
                      ELSE Decoded(BInt(n.value), idx + 1)
             ELSE IF char = 108 THEN decode_list(data, start + 1, << >>)
             ELSE IF char = 100 THEN decode_dict(data, start + 1, << >>)
             ELSE Raises

decode_list(data, start, list) ==
    IF start >= Len(data) THEN Raises
    ELSE IF data[start + 1] = 101 THEN Decoded(BList(list), start + 1)
    ELSE LET item == decode_at(data, start)
         IN  IF item.kind = "raise" THEN Raises
             ELSE decode_list(data, item.next, Append(list, item.value))

decode_dict(data, start, dict) ==
    IF start >= Len(data) THEN Raises
    ELSE IF data[start + 1] = 101 THEN Decoded(BDict(dict), start + 1)
    ELSE LET key == decode_at(data, start)
         IN  IF key.kind = "raise" THEN Raises
             ELSE IF key.value.t # "bytes" THEN Raises
             ELSE LET value == decode_at(data, key.next)
                      name == Utf8Decode(key.value.b)
                  IN  IF value.kind = "raise" \/ name.kind = "raise" THEN Raises
                      ELSE decode_dict(data, value.next,
                                       SetEntry(dict, name.value, value.value))

\* decode_bencode, lines 27-30
decode_bencode(data) ==
    LET r == decode_at(data, 0)
    IN  IF r.kind = "raise" THEN Raises
        ELSE IF r.next # Len(data) THEN Raises
        ELSE Returns(r.value)

\* the values bencoded: integers, byte strings, and lists and dictionaries
\* of them, nested once more
BenInts == {BInt(0 - 10), BInt(0), BInt(7)}
BenStrings == {BBytes(b) : b \in SeqsUpTo({49, 58, 101}, MaxPayload)}
BenKeys == {<< >>, << 97 >>, << 233 >>, << 97, 98 >>}
BenAtoms == {BInt(0 - 10), BInt(0), BBytes(<< >>), BBytes(<< 58, 101 >>)}

BenFlat ==
    BenInts \cup BenStrings
    \cup {BList(q) : q \in SeqsUpTo(BenAtoms, 2)}
    \cup {BDict(<< >>)}
    \cup {BDict(<< [key |-> k, value |-> x] >>) : k \in BenKeys, x \in BenAtoms}
    \cup {BDict(<< [key |-> << 98 >>, value |-> x], [key |-> << 97 >>, value |-> y] >>) :
              x \in BenAtoms, y \in BenAtoms}

BenValues ==
    BenFlat
    \cup {BList(<< x >>) : x \in BenFlat}
    \cup {BDict(<< [key |-> << 97 >>, value |-> x] >>) : x \in BenFlat}

\* a value is bencoded and the bytes are decoded
BencodeRoundTrip ==
    /\ calc = NoCall
    /\ \E v \in BenValues :
           calc' = [op |-> "bencode", input |-> v, encoded |-> bencode(v),
                    decoded |-> decode_bencode(bencode(v))]
    /\ UNCHANGED << cfg, tmp_dir, writes, cpc, work_queue, work_done,
                    workers_per_work, pc, work, bitfield, choked, cancel, dl,
                    wire, sent, offset >>

\* ---------------------------------------------------------------- session
\* Outside _download its locals do not exist.
NoDl ==
    [downloaded_data |-> << >>, downloaded_bytes |-> 0,
     should_request_chunks |-> FALSE, requests_received |-> 0]

\* _download, lines 204-207
FreshDl(p) ==
    [downloaded_data |-> [i \in 1 .. SizeOf(p) |-> 0], downloaded_bytes |-> 0,
     should_request_chunks |-> TRUE, requests_received |-> 0]

\* the slice assignment with the block put where the last one ended, in
\* the order of arrival, and not at `start`.
SpliceInArrivalOrder(buf, start, data) ==
    LET filled == Cardinality({i \in 1 .. Len(buf) : buf[i] # 0})
    IN  SubSeq(buf, 1, filled) \o data
            \o SubSeq(buf, Min(filled + Len(data), Len(buf)) + 1, Len(buf))

\* downloaded_data[start : start + len(data)] = data, a Python slice
\* assignment: both ends are clipped to the buffer
Splice(buf, start, data) ==
    LET lo == Min(start, Len(buf))
        hi == Min(start + Len(data), Len(buf))
    IN  SubSeq(buf, 1, lo) \o data \o SubSeq(buf, hi + 1, Len(buf))

\* the REQUEST loop of _download, lines 283-288: n requests from offset tmp
RECURSIVE RequestBatch(_, _, _)
RequestBatch(p, tmp, n) ==
    IF n = 0 THEN << >>
    ELSE LET length == Min(chunk_size, SizeOf(p) - tmp)
         IN  << [index |-> p, begin |-> tmp, length |-> length] >>
                 \o RequestBatch(p, tmp + length, n - 1)

\* struct.pack('!III', ...) raises struct.error on a negative length
RequestRaises(p, tmp) == Min(chunk_size, SizeOf(p) - tmp) < 0

\* ----------------------------------------------------------- remote peers
\* A remote peer is either a seed of the pieces cfg.remote[s].has, which
\* sends BITFIELD and UNCHOKE after the handshake and answers every REQUEST
\* for a piece it has (a `corrupt` seed with bytes that are not the
\* piece's), or `any`: a peer that may send any frame at any time, fail the
\* handshake, reset or close the connection.
IsSeed(s) == cfg.remote[s].kind \in {"seed", "corrupt"}

BlockStarts(p) == {b \in 0 .. (SizeOf(p) - 1) : b % chunk_size = 0}

GoodBlock(p, begin, length) ==
    [i \in 1 .. length |-> Content(p)[begin + i]]

BadBlock(length) == [i \in 1 .. length |-> BadByte]

Bitfields == {<< ByteOf(S) >> : S \in SUBSET Pieces}

AnyMsgs(s) ==
    {Plain(id) : id \in {M_KEEP_ALIVE, M_CHOKE, M_UNCHOKE, M_INTERESTED,
                         M_NOT_INTERESTED, M_REQUEST, M_CANCEL}}
    \cup {Msg(M_HAVE, i, 0, << >>) : i \in Pieces}
    \cup {Msg(M_BITFIELD, 0, 0, b) : b \in Bitfields}
    \cup IF work[s] = None \/ dl[s].downloaded_bytes > SizeOf(work[s]) THEN {}
         ELSE LET p == work[s]
              IN  UNION {
                    {Msg(M_PIECE, p, b, GoodBlock(p, b, Min(chunk_size, SizeOf(p) - b))),
                     Msg(M_PIECE, p, b, BadBlock(Min(chunk_size, SizeOf(p) - b)))}
                    : b \in BlockStarts(p)}

\* the frames PeerMessage.read can return next
Incoming(s) ==
    IF IsSeed(s)
    THEN IF wire[s] = << >> THEN {} ELSE {Head(wire[s])}
    ELSE AnyMsgs(s)

\* the rest of the stream once a frame was read
Rest(s) == IF IsSeed(s) THEN Tail(wire[s]) ELSE wire[s]

\* a seed's answers to a batch of requests, in order
RECURSIVE Replies(_, _)
Replies(s, reqs) ==
    IF reqs = << >> THEN << >>
    ELSE LET r == Head(reqs)
         IN  (IF r.index \in cfg.remote[s].has
              THEN << Msg(M_PIECE, r.index, r.begin,
                          IF cfg.remote[s].kind = "corrupt"
                          THEN BadBlock(r.length)
                          ELSE GoodBlock(r.index, r.begin, r.length)) >>
              ELSE << >>)
             \o Replies(s, Tail(reqs))

\* the stream after the session wrote the batch `reqs`
AfterRequests(s, reqs) ==
    IF IsSeed(s) THEN Rest(s) \o Replies(s, reqs) ELSE wire[s]

\* ------------------------------------------------- _download: one message
\* the dispatch of lines 217-274 on message m, up to the calls it makes
Dispatched(s, m) ==
    LET d == dl[s]
        id == m.message_id
        n == d.requests_received + 1
    IN  [bitfield |->
             IF id = M_HAVE THEN set_piece(bitfield[s], m.index)
             ELSE IF id = M_BITFIELD THEN m.block
             ELSE bitfield[s],
         choked |->
             IF id = M_CHOKE THEN TRUE
             ELSE IF id = M_UNCHOKE THEN FALSE
             ELSE choked[s],
         dl |->
             IF id = M_PIECE
             THEN [downloaded_data |-> Splice(d.downloaded_data, m.begin, m.block),
                   downloaded_bytes |-> d.downloaded_bytes + Len(m.block),
                   requests_received |-> n,
                   should_request_chunks |->
                       IF n = cfg.max_batch_requests THEN TRUE
                       ELSE d.should_request_chunks]
             ELSE d]

\* which way the dispatch leaves: "lacks" (line 242), "hash_ok" (264),
\* "hash_bad" (268), or on to the cancel check of line 276
Outcome(s, m) ==
    LET a == Dispatched(s, m)
    IN  IF m.message_id = M_BITFIELD /\ ~has_piece(a.bitfield, work[s]) THEN "lacks"
        ELSE IF m.message_id = M_PIECE /\ a.dl.downloaded_bytes = SizeOf(work[s])
             THEN IF HashMatches(a.dl.downloaded_data, work[s])
                  THEN "hash_ok" ELSE "hash_bad"
        ELSE "go_on"

\* ---------------------------------------------------------------- actions
\* Client.download, lines 48-51: _read_downloaded_parts fills work_done and
\* work_queue from the names of the files in .tmp; then the sessions start.
ReadDownloadedParts ==
    /\ cpc = "init"
    /\ cpc' = "run"
    /\ work_done' = {p \in Pieces : tmp_dir[p] # "none"}
    /\ work_queue' = {p \in Pieces : tmp_dir[p] = "none"}
    /\ UNCHANGED << cfg, calc, tmp_dir, writes, workers_per_work, pc, work, bitfield,
                    choked, cancel, dl, wire, sent, offset >>

\* Peer.start, lines 141-142: nothing to do, no socket was made
StartFinished(s) ==
    /\ cpc = "run" /\ s \in cfg.peers /\ pc[s] = "start"
    /\ has_finished
    /\ pc' = [pc EXCEPT ![s] = "exit"]
    /\ UNCHANGED << cfg, calc, tmp_dir, writes, cpc, work_queue, work_done,
                    workers_per_work, work, bitfield, choked, cancel, dl, wire,
                    sent, offset >>

\* Peer.start, lines 144-150: connect and handshake succeed.  A seed then
\* sends its BITFIELD and UNCHOKE.
HandshakeOk(s) ==
    /\ cpc = "run" /\ s \in cfg.peers /\ pc[s] = "start"
    /\ ~has_finished
    /\ pc' = [pc EXCEPT ![s] = "loop"]
    /\ wire' = [wire EXCEPT ![s] =
                   IF IsSeed(s)
                   THEN << Msg(M_BITFIELD, 0, 0, << ByteOf(cfg.remote[s].has) >>),
                           Plain(M_UNCHOKE) >>
                   ELSE << >>]
    /\ UNCHANGED << cfg, calc, tmp_dir, writes, cpc, work_queue, work_done,
                    workers_per_work, work, bitfield, choked, cancel, dl,
                    sent, offset >>

\* Peer.start without the return of line 148: the session goes on to its loop.
HandshakeFailsGoesOn(s) ==
    /\ cpc = "run" /\ s \in cfg.peers /\ pc[s] = "start"
    /\ ~has_finished /\ ~IsSeed(s)
    /\ pc' = [pc EXCEPT ![s] = "loop"]
    /\ UNCHANGED << cfg, calc, tmp_dir, writes, cpc, work_queue, work_done,
                    workers_per_work, work, bitfield, choked, cancel, dl, wire,
                    sent, offset >>

\* Peer.start, lines 146-148: a socket.error in connect or in the handshake,
\* or a handshake that does not match: the socket is closed
HandshakeFails(s) ==
    /\ cpc = "run" /\ s \in cfg.peers /\ pc[s] = "start"
    /\ ~has_finished /\ ~IsSeed(s)
    /\ pc' = [pc EXCEPT ![s] = "closed"]
    /\ UNCHANGED << cfg, calc, tmp_dir, writes, cpc, work_queue, work_done,
                    workers_per_work, work, bitfield, choked, cancel, dl, wire,
                    sent, offset >>

\* read_bytes, line 62, under _handshake: the remote closes before its 68
\* bytes are in; RuntimeError is no socket.error, nothing catches it and
\* the thread ends with the socket open
HandshakeEOF(s) ==
    /\ cpc = "run" /\ s \in cfg.peers /\ pc[s] = "start"
    /\ ~has_finished /\ ~IsSeed(s)
    /\ pc' = [pc EXCEPT ![s] = "crashed"]
    /\ UNCHANGED << cfg, calc, tmp_dir, writes, cpc, work_queue, work_done,
                    workers_per_work, work, bitfield, choked, cancel, dl, wire,
                    sent, offset >>

\* Peer.start, line 151 and 165-166: the loop test; when the swarm has
\* finished the session shuts down and closes its socket
LoopTest(s) ==
    /\ pc[s] = "loop"
    /\ pc' = [pc EXCEPT ![s] = IF has_finished THEN "closed" ELSE "get_work"]
    /\ UNCHANGED << cfg, calc, tmp_dir, writes, cpc, work_queue, work_done,
                    workers_per_work, work, bitfield, choked, cancel, dl, wire,
                    sent, offset >>

\* Peer.start, lines 152-156: no work; sleep, then test the loop again
GetNoWork(s) ==
    /\ pc[s] = "get_work"
    /\ get_work_none(s)
    /\ pc' = [pc EXCEPT ![s] = "loop"]
    /\ UNCHANGED << cfg, calc, tmp_dir, writes, cpc, work_done, work, bitfield,
                    choked, cancel, dl, wire, sent, offset >>

\* Peer.start, line 152 and 159, and _download, lines 204-212: a piece is
\* handed out and its download begins (locals, cancel flag, UNCHOKE and
\* INTERESTED written)
GetWork(s) ==
    /\ pc[s] = "get_work"
    /\ \E chosen \in Candidates(bitfield[s]) :
           /\ get_work(s, chosen)
           /\ work' = [work EXCEPT ![s] = chosen]
           /\ dl' = [dl EXCEPT ![s] = FreshDl(chosen)]
    /\ cancel' = [cancel EXCEPT ![s] = FALSE]
    /\ pc' = [pc EXCEPT ![s] = "download"]
    /\ UNCHANGED << cfg, calc, tmp_dir, writes, cpc, work_done, bitfield, choked,
                    wire, sent, offset >>

\* the session leaves _download for `to`
Leave(s, to) ==
    /\ pc' = [pc EXCEPT ![s] = to]
    /\ work' = [work EXCEPT ![s] = None]
    /\ dl' = [dl EXCEPT ![s] = NoDl]

\* _download, one turn of the loop that stays in the piece or leaves it by
\* the cancel flag: read, dispatch (217-274), cancel check (276-277), and
\* the batch of REQUESTs (279-288)
Receive(s) ==
    /\ pc[s] = "download"
    /\ \E m \in Incoming(s) :
        LET a == Dispatched(s, m)
            p == work[s]
        IN  /\ Outcome(s, m) = "go_on"
            /\ bitfield' = [bitfield EXCEPT ![s] = a.bitfield]
            /\ choked' = [choked EXCEPT ![s] = a.choked]
            /\ IF cancel[s]
               THEN /\ Leave(s, "loop")
                    /\ wire' = [wire EXCEPT ![s] = Rest(s)]
               ELSE IF a.dl.should_request_chunks /\ ~a.choked
               THEN IF RequestRaises(p, a.dl.downloaded_bytes)
                    THEN /\ Leave(s, "crashed")
                         /\ wire' = [wire EXCEPT ![s] = Rest(s)]
                    ELSE /\ dl' = [dl EXCEPT ![s] =
                                [a.dl EXCEPT !.should_request_chunks = FALSE,
                                             !.requests_received = 0]]
                         /\ wire' = [wire EXCEPT ![s] =
                                AfterRequests(s, RequestBatch(p, a.dl.downloaded_bytes,
                                                              cfg.max_batch_requests))]
                         /\ UNCHANGED << pc, work >>
               ELSE /\ dl' = [dl EXCEPT ![s] = a.dl]
                    /\ wire' = [wire EXCEPT ![s] = Rest(s)]
                    /\ UNCHANGED << pc, work >>
    /\ UNCHANGED << cfg, calc, tmp_dir, writes, cpc, work_queue, work_done,
                    workers_per_work, cancel, sent, offset >>

\* _download, lines 239-245: the BITFIELD read does not cover the work
\* piece: put_work, and back to the session loop
ReceiveBitfieldLacking(s) ==
    /\ pc[s] = "download"
    /\ \E m \in Incoming(s) :
        /\ Outcome(s, m) = "lacks"
        /\ bitfield' = [bitfield EXCEPT ![s] = Dispatched(s, m).bitfield]
    /\ put_work(s, work[s])
    /\ Leave(s, IF PutWorkRaises(s, work[s]) THEN "crashed" ELSE "loop")
    /\ wire' = [wire EXCEPT ![s] = Rest(s)]
    /\ UNCHANGED << cfg, calc, tmp_dir, writes, cpc, work_done, choked, cancel, sent, offset >>

\* _download, lines 263-265: the last byte is in and the digest matches:
\* put_result.  When it raises nothing catches it; when it returns the
\* session goes on to write HAVE.
ReceiveLastBlock(s) ==
    /\ pc[s] = "download"
    /\ \E m \in Incoming(s) :
        /\ Outcome(s, m) = "hash_ok"
        /\ put_result(s, work[s], Dispatched(s, m).dl.downloaded_data)
    /\ IF PutResultRaises(s, work[s])
       THEN Leave(s, "crashed")
       ELSE /\ pc' = [pc EXCEPT ![s] = "have"]
            /\ dl' = [dl EXCEPT ![s] = NoDl]
            /\ work' = work
    /\ wire' = [wire EXCEPT ![s] = Rest(s)]
    /\ UNCHANGED << cfg, calc, cpc, bitfield, choked, cancel, sent, offset >>

\* _download, lines 268-271: the last byte is in and the digest differs:
\* put_work, and back to the session loop
ReceiveCorrupted(s) ==
    /\ pc[s] = "download"
    /\ \E m \in Incoming(s) : Outcome(s, m) = "hash_bad"
    /\ put_work(s, work[s])
    /\ Leave(s, IF PutWorkRaises(s, work[s]) THEN "crashed" ELSE "loop")
    /\ wire' = [wire EXCEPT ![s] = Rest(s)]
    /\ UNCHANGED << cfg, calc, tmp_dir, writes, cpc, work_done, bitfield, choked,
                    cancel, sent, offset >>

\* _download, lines 266-267: HAVE is written and _download returns
HaveSent(s) ==
    /\ pc[s] = "have"
    /\ Leave(s, "loop")
    /\ UNCHANGED << cfg, calc, tmp_dir, writes, cpc, work_queue, work_done,
                    workers_per_work, bitfield, choked, cancel, wire,
                    sent, offset >>

\* Peer.start, lines 160-166, a socket.error out of _download: put_work,
\* break, close.  When put_work raises (ValueError) the handler is left
\* with the socket open.
SocketErrorIn(s, at) ==
    /\ pc[s] = at /\ ~IsSeed(s)
    /\ put_work(s, work[s])
    /\ Leave(s, IF PutWorkRaises(s, work[s]) THEN "crashed" ELSE "closed")
    /\ UNCHANGED << cfg, calc, tmp_dir, writes, cpc, work_done, bitfield, choked,
                    cancel, wire, sent, offset >>

\* a read or a write of the piece loop fails (reset, timeout)
SocketError(s) == SocketErrorIn(s, "download")

\* the write of HAVE after put_result fails (line 266)
HaveFails(s) == SocketErrorIn(s, "have")

\* read_bytes, lines 61-62: recv returns b'' and RuntimeError leaves
\* Peer.start: no put_work, no close
ConnectionClosed(s) ==
    /\ pc[s] = "download" /\ ~IsSeed(s)
    /\ Leave(s, "crashed")
    /\ UNCHANGED << cfg, calc, tmp_dir, writes, cpc, work_queue, work_done,
                    workers_per_work, bitfield, choked, cancel, wire,
                    sent, offset >>

\* Client.download, line 53 and 71: the executor block is left when every
\* session's Peer.start has returned or raised
AllEnded == \A s \in cfg.peers : pc[s] \in {"closed", "crashed", "exit"}

\* Client.download, lines 73-75: 'Could not download file.'
CouldNotDownload ==
    /\ cpc = "run" /\ AllEnded
    /\ ~has_finished
    /\ cpc' = "failed"
    /\ UNCHANGED << cfg, calc, tmp_dir, writes, work_queue, work_done,
                    workers_per_work, pc, work, bitfield, choked, cancel, dl,
                    wire, sent, offset >>

\* Client.download, line 77: file assembly starts
WriteFiles ==
    /\ cpc = "run" /\ AllEnded
    /\ has_finished
    /\ cpc' = "write_files"
    /\ UNCHANGED << cfg, calc, tmp_dir, writes, work_queue, work_done,
                    workers_per_work, pc, work, bitfield, choked, cancel, dl,
                    wire, sent, offset >>

\* ------------------------------------------------- the session, step by step
\* Peer.start and Peer._download at the grain of their statements, with
\* PeerMessage.read taking its bytes in several recv calls and
\* Peer.cancel_work called from another thread.  pc has four more
\* positions: "assigned" (get_work has returned, line 152, and _download
\* has not begun), "read_prefix" and "read_body" (inside PeerMessage.read
\* with part of the length prefix, or all of it, in hand) and "check" (a
\* message was dispatched, line 276 is next).
InPiece(s) == pc[s] \in {"download", "read_prefix", "read_body", "check"}

\* frames a remote peer has in flight at most before it sends CHOKE / UNCHOKE
MaxInFlight == 1

\* Peer.start, line 152: get_work returns a piece
PeerGetWork(s) ==
    /\ pc[s] = "get_work"
    /\ \E chosen \in Candidates(bitfield[s]) :
           /\ get_work(s, chosen)
           /\ work' = [work EXCEPT ![s] = chosen]
    /\ pc' = [pc EXCEPT ![s] = "assigned"]
    /\ UNCHANGED << cfg, calc, tmp_dir, writes, cpc, work_done, bitfield, choked,
                    cancel, dl, wire, sent, offset >>

\* _download, lines 204-212: the locals, the cancel flag cleared, UNCHOKE
\* and INTERESTED written
DownloadStarts(s) ==
    /\ pc[s] = "assigned"
    /\ dl' = [dl EXCEPT ![s] = FreshDl(work[s])]
    /\ cancel' = [cancel EXCEPT ![s] = FALSE]
    /\ sent' = [sent EXCEPT ![s] = << M_UNCHOKE, M_INTERESTED >>]
    /\ pc' = [pc EXCEPT ![s] = "download"]
    /\ UNCHANGED << cfg, calc, tmp_dir, writes, cpc, work_queue, work_done,
                    workers_per_work, work, bitfield, choked, wire, offset >>

\* Peer.cancel_work, lines 169-170, called for a session that holds a piece
CancelWork(s) ==
    /\ pc[s] = "assigned" \/ InPiece(s)
    /\ ~cancel[s]
    /\ cancel' = [cancel EXCEPT ![s] = TRUE]
    /\ UNCHANGED << cfg, calc, tmp_dir, writes, cpc, work_queue, work_done,
                    workers_per_work, pc, work, bitfield, choked, dl, wire,
                    sent, offset >>

\* the remote peer chokes or unchokes the session
RemoteChokes(s) ==
    /\ pc[s] \notin {"start", "closed", "crashed", "exit"}
    /\ Len(wire[s]) < MaxInFlight
    /\ \E id \in {M_CHOKE, M_UNCHOKE} :
           wire' = [wire EXCEPT ![s] = Append(@, Plain(id))]
    /\ UNCHANGED << cfg, calc, tmp_dir, writes, cpc, work_queue, work_done,
                    workers_per_work, pc, work, bitfield, choked, cancel, dl,
                    sent, offset >>

\* read_bytes, lines 54-64: recv returns a part of what the frame needs,
\* and the loop goes round
ReadPart(s) ==
    /\ ~cancel[s] /\ wire[s] # << >>
    /\ \/ /\ pc[s] = "download" /\ offset[s] = "frame"
          /\ \E to \in {"prefix", "body"} :
                 /\ pc' = [pc EXCEPT ![s] = IF to = "prefix" THEN "read_prefix"
                                            ELSE "read_body"]
                 /\ offset' = [offset EXCEPT ![s] = to]
       \/ /\ pc[s] = "read_prefix"
          /\ pc' = [pc EXCEPT ![s] = "read_body"]
          /\ offset' = [offset EXCEPT ![s] = "body"]
    /\ UNCHANGED << cfg, calc, tmp_dir, writes, cpc, work_queue, work_done,
                    workers_per_work, work, bitfield, choked, cancel, dl, wire,
                    sent >>

\* _download, lines 217-274, on the message m that PeerMessage.read
\* returned, the stream left as `rest`
Deliver(s, m, rest) ==
    LET a == Dispatched(s, m)
        p == work[s]
        o == Outcome(s, m)
    IN  /\ bitfield' = [bitfield EXCEPT ![s] = a.bitfield]
        /\ choked' = [choked EXCEPT ![s] = a.choked]
        /\ wire' = [wire EXCEPT ![s] = rest]
        /\ IF o = "go_on"
           THEN /\ dl' = [dl EXCEPT ![s] = a.dl]
                /\ pc' = [pc EXCEPT ![s] = "check"]
                /\ UNCHANGED << work, work_queue, work_done, workers_per_work,
                                writes, tmp_dir >>
           ELSE IF o = "hash_ok"
           THEN /\ put_result(s, p, a.dl.downloaded_data)
                /\ IF PutResultRaises(s, p)
                   THEN Leave(s, "crashed")
                   ELSE /\ pc' = [pc EXCEPT ![s] = "have"]
                        /\ dl' = [dl EXCEPT ![s] = NoDl]
                        /\ work' = work
           ELSE /\ put_work(s, p)
                /\ Leave(s, IF PutWorkRaises(s, p) THEN "crashed" ELSE "loop")
                /\ UNCHANGED << work_done, writes, tmp_dir >>

\* PeerMessage.read, lines 43-48: the frame at the head of the stream is
\* read to its end and dispatched
ReadFrame(s) ==
    /\ ~cancel[s] /\ wire[s] # << >>
    /\ \/ pc[s] = "download" /\ offset[s] = "frame"
       \/ pc[s] \in {"read_prefix", "read_body"}
    /\ Deliver(s, Head(wire[s]), Tail(wire[s]))
    /\ offset' = [offset EXCEPT ![s] = "frame"]
    /\ UNCHANGED << cfg, calc, cpc, cancel, sent >>

\* PeerMessage.read begun in the middle of a frame: four bytes of it are
\* taken for a length prefix, and what is decoded, out of the bytes up to
\* somewhere in the next frame, is some frame or other
ReadAstray(s) ==
    /\ ~cancel[s] /\ wire[s] # << >>
    /\ pc[s] = "download" /\ offset[s] # "frame"
    /\ \E m \in AnyMsgs(s) : Deliver(s, m, Tail(wire[s]))
    /\ UNCHANGED << cfg, calc, cpc, cancel, sent, offset >>

\* read_bytes, lines 57-58, under the read of the length prefix: the flag
\* is set, b'' is returned with the bytes taken so far dropped, and
\* int.from_bytes(b'') == 0 makes read return KEEP_ALIVE (lines 44-46)
ReadCancelled(s) ==
    /\ cancel[s] /\ wire[s] # << >>
    /\ pc[s] \in {"download", "read_prefix"}
    /\ pc' = [pc EXCEPT ![s] = "check"]
    /\ UNCHANGED << cfg, calc, tmp_dir, writes, cpc, work_queue, work_done,
                    workers_per_work, work, bitfield, choked, cancel, dl, wire,
                    sent, offset >>

\* read_bytes, lines 57-58, under the read of the body: b'' is returned
\* and data[0] at line 48 raises IndexError, which nothing catches
ReadCancelledBody(s) ==
    /\ cancel[s] /\ wire[s] # << >>
    /\ pc[s] = "read_body"
    /\ Leave(s, "crashed")
    /\ UNCHANGED << cfg, calc, tmp_dir, writes, cpc, work_queue, work_done,
                    workers_per_work, bitfield, choked, cancel, wire, sent,
                    offset >>

\* the test of line 279 with the choke state left out.
MayRequestChoked(s) == dl[s].should_request_chunks

\* should_request_chunks and not self.choked, line 279
MayRequest(s) == dl[s].should_request_chunks /\ ~choked[s]

\* the record of frames written, after one more of them: a run of frames
\* of one kind is kept as one entry
Written(seq, id) ==
    IF seq # << >> /\ seq[Len(seq)] = id THEN seq ELSE Append(seq, id)

\* _download, lines 276-288: the cancel check, then the batch of REQUESTs
Check(s) ==
    /\ pc[s] = "check"
    /\ IF cancel[s]
       THEN /\ Leave(s, "loop")
            /\ UNCHANGED << wire, sent >>
       ELSE IF MayRequest(s)
       THEN IF RequestRaises(work[s], dl[s].downloaded_bytes)
            THEN /\ Leave(s, "crashed")
                 /\ UNCHANGED << wire, sent >>
            ELSE /\ dl' = [dl EXCEPT ![s] =
                        [@ EXCEPT !.should_request_chunks = FALSE,
                                  !.requests_received = 0]]
                 /\ wire' = [wire EXCEPT ![s] =
                        @ \o Replies(s, RequestBatch(work[s], dl[s].downloaded_bytes,
                                                     cfg.max_batch_requests))]
                 /\ sent' = [sent EXCEPT ![s] = Written(@, M_REQUEST)]
                 /\ pc' = [pc EXCEPT ![s] = "download"]
                 /\ work' = work
       ELSE /\ pc' = [pc EXCEPT ![s] = "download"]
            /\ UNCHANGED << work, dl, wire, sent >>
    /\ UNCHANGED << cfg, calc, tmp_dir, writes, cpc, work_queue, work_done,
                    workers_per_work, bitfield, choked, cancel, offset >>

\* _download, lines 266-267: HAVE is written and _download returns
HaveWritten(s) ==
    /\ pc[s] = "have"
    /\ Leave(s, "loop")
    /\ sent' = [sent EXCEPT ![s] = Written(@, M_HAVE)]
    /\ UNCHANGED << cfg, calc, tmp_dir, writes, cpc, work_queue, work_done,
                    workers_per_work, bitfield, choked, cancel, wire, offset >>

\* ----------------------------------------------------------------- trackers
\* src/client/trackers.py, against the Torrent of src/client/torrent.py.
\* The attributes and methods that Torrent has.
TorrentAttrs ==
    {"name", "size", "piece_size", "piece_count", "info_hash", "trackers",
     "files", "pieces", "trackers_by_protocol", "from_file", "from_bytes",
     "sha1"}

\* IpAndPort values a tracker may list; port 0 is the one to drop
Endpoints == {[ip |-> "p1", port |-> 0], [ip |-> "p2", port |-> 6881]}

\* What a tracker does with one announce: how the connect exchange ends
\* and, when that went well, how the announce exchange ends.
FailureKinds == {"timeout", "tid_mismatch", "malformed", "error"}

TrackerReplies ==
    {[connect |-> k, announce |-> "none", peers |-> {}] : k \in FailureKinds}
    \cup {[connect |-> "ok", announce |-> k, peers |-> {}] : k \in FailureKinds}
    \cup {[connect |-> "ok", announce |-> "ok", peers |-> ps] : ps \in SUBSET Endpoints}

\* Trackers._announce
announce(reply) ==
    IF reply.connect = "timeout" THEN ReturnsNone            \* socket.error, 241-244
    ELSE IF reply.connect \in {"malformed", "error"} THEN Raises
                                         \* struct.error / assert, lines 45-46
    ELSE IF reply.connect = "tid_mismatch" THEN ReturnsNone  \* 215-218
    ELSE IF "file_size" \notin TorrentAttrs THEN Raises      \* AttributeError, 227
    ELSE IF reply.announce = "timeout" THEN ReturnsNone
    ELSE IF reply.announce = "malformed" THEN ReturnsNone    \* 127-128, then 232
    ELSE IF reply.announce = "error" THEN Raises             \* assert, line 139
    ELSE IF reply.announce = "tid_mismatch" THEN ReturnsNone \* 232-235
    ELSE Returns(reply.peers)

\* Trackers._get_peers_from_tracker, for a tracker that answers the START
\* announce with t.start and the STOP announce with t.stop
get_peers_from_tracker(t) ==
    LET first == announce(t.start)
        second == announce(t.stop)
    IN  IF first.kind = "raise" THEN Raises
        ELSE IF first.kind = "none" THEN Returns({})
        ELSE IF first.value # {}
             THEN Returns({peer \in first.value : peer.port # 0})
        ELSE IF second.kind = "value"
             THEN Returns({peer \in second.value : peer.port # 0})
        ELSE Raises     \* the STOP announce raised, or response is None at 198

\* Trackers.get_peers over the trackers of the torrent
get_peers(behaviour) ==
    IF "get_trackers" \notin TorrentAttrs THEN Raises        \* AttributeError, 176
    ELSE IF \E t \in DOMAIN behaviour :
                get_peers_from_tracker(behaviour[t]).kind = "raise"
         THEN Raises
         ELSE Returns(UNION {get_peers_from_tracker(behaviour[t]).value :
                                t \in DOMAIN behaviour})

\* the udp trackers of the modelled torrents
TrackerNames == {"t1", "t2"}

\* the answers to the STOP announce that are told apart
StopReplies ==
    {r \in TrackerReplies :
        r.connect \in {"timeout", "ok"} /\ r.announce \in {"none", "ok"}}

TrackerBehaviours == [start : TrackerReplies, stop : StopReplies]

\* a call of get_peers
GetPeers ==
    /\ calc = NoCall
    /\ \E behaviour \in [TrackerNames -> TrackerBehaviours] :
           calc' = [op |-> "get_peers", input |-> behaviour,
                    result |-> get_peers(behaviour)]
    /\ UNCHANGED << cfg, tmp_dir, writes, cpc, work_queue, work_done,
                    workers_per_work, pc, work, bitfield, choked, cancel, dl,
                    wire, sent, offset >>

\* the transaction ids told apart: random.randbytes(4) may give any of them
TransactionIds == {0, 1}

\* what sock.recv gives for the connect response: a timeout, or 16 bytes
ConnectResponses ==
    {[kind |-> "timeout", action |-> 0, transaction_id |-> 0]}
    \cup [kind : {"data"}, action : {0, 1}, transaction_id : TransactionIds]

\* what sock.recv gives for the announce response: a timeout, a datagram
\* whose length is not 20 + 6 * n, or a well-formed one
AnnounceResponses ==
    {[kind |-> k, action |-> 0, transaction_id |-> 0, peers |-> {}] :
        k \in {"timeout", "short"}}
    \cup [kind : {"data"}, action : {0, 1}, transaction_id : TransactionIds,
          peers : SUBSET Endpoints]

\* _AnnounceResponse.from_bytes, lines 127-128: a datagram of the wrong
\* length gives transaction id 0 and no peers
AnnounceFromBytes(ann) ==
    IF ann.kind = "short"
    THEN [ann EXCEPT !.transaction_id = 0, !.peers = {}]
    ELSE ann

\* a test of lines 215 and 232 that lets every response through.
tid_never_differs(transaction_id, received) == FALSE

\* transaction_id != response.transaction_id, lines 215 and 232
tid_differs(transaction_id, received) == transaction_id # received

\* Trackers._announce with the transaction id it drew and what the two
\* recv calls give: whether the announce request was sent, and the result
announce_exchange(transaction_id, connect, ann) ==
    LET response == AnnounceFromBytes(ann)
    IN  IF connect.kind = "timeout"                          \* 241-244
        THEN [sent |-> FALSE, result |-> ReturnsNone]
        ELSE IF connect.action # 0                           \* assert, line 45
        THEN [sent |-> FALSE, result |-> Raises]
        ELSE IF tid_differs(transaction_id, connect.transaction_id)   \* 215-218
        THEN [sent |-> FALSE, result |-> ReturnsNone]
        ELSE IF "file_size" \notin TorrentAttrs              \* AttributeError, 227
        THEN [sent |-> FALSE, result |-> Raises]
        ELSE IF ann.kind = "timeout"                         \* 241-244
        THEN [sent |-> TRUE, result |-> ReturnsNone]
        ELSE IF ann.kind = "data" /\ ann.action # 1          \* assert, line 139
        THEN [sent |-> TRUE, result |-> Raises]
        ELSE IF tid_differs(transaction_id, response.transaction_id)  \* 232-235
        THEN [sent |-> TRUE, result |-> ReturnsNone]
        ELSE [sent |-> TRUE, result |-> Returns(response.peers)]

\* a call of _announce
Announce ==
    /\ calc = NoCall
    /\ \E transaction_id \in TransactionIds, connect \in ConnectResponses,
          ann \in AnnounceResponses :
           calc' = [op |-> "announce", transaction_id |-> transaction_id,
                    connect |-> connect, ann |-> ann,
                    outcome |-> announce_exchange(transaction_id, connect, ann)]
    /\ UNCHANGED << cfg, tmp_dir, writes, cpc, work_queue, work_done,
                    workers_per_work, pc, work, bitfield, choked, cancel, dl,
                    wire, sent, offset >>

\* ---------------------------------------------------------- specifications
\* Client(max_peers_per_piece=...) of the modelled runs
Caps == {1, 2}

\* A swarm of peers that may do anything, over one-block pieces.
SwarmCfg(cap) ==
    [size |-> [p \in Pieces |-> chunk_size],
     max_peers_per_piece |-> cap,
     max_batch_requests |-> 1,
     peers |-> Peers,
     remote |-> [s \in Peers |-> [kind |-> "any", has |-> {}]]]

\* The state after Client.__init__ and the Peer.__init__ of every session,
\* before download() has read the .tmp directory a former run may have left.
InitWith(configs, dirs) ==
    /\ cfg \in configs
    /\ tmp_dir \in dirs
    /\ writes = [p \in Pieces |-> 0]
    /\ cpc = "init"
    /\ work_queue = {}
    /\ work_done = {}
    /\ workers_per_work = << >>
    /\ pc = [s \in Peers |-> "start"]
    /\ work = [s \in Peers |-> None]
    /\ bitfield = [s \in Peers |-> << >>]
    /\ choked = [s \in Peers |-> TRUE]
    /\ cancel = [s \in Peers |-> FALSE]
    /\ dl = [s \in Peers |-> NoDl]
    /\ wire = [s \in Peers |-> << >>]
    /\ calc = NoCall
    /\ sent = [s \in Peers |-> << >>]
    /\ offset = [s \in Peers |-> "frame"]

\* the trackers gave no peer at all
NoPeersCfg == [SwarmCfg(1) EXCEPT !.peers = {}]

Init ==
    InitWith({SwarmCfg(c) : c \in Caps} \cup {NoPeersCfg},
             [Pieces -> {"none", "good", "bad"}])

Next ==
    \/ ReadDownloadedParts
    \/ CouldNotDownload
    \/ WriteFiles
    \/ \E s \in Peers : StartFinished(s)
    \/ \E s \in Peers : HandshakeOk(s)
    \/ \E s \in Peers : HandshakeFails(s)
    \/ \E s \in Peers : HandshakeEOF(s)
    \/ \E s \in Peers : LoopTest(s)
    \/ \E s \in Peers : GetNoWork(s)
    \/ \E s \in Peers : GetWork(s)
    \/ \E s \in Peers : Receive(s)
    \/ \E s \in Peers : ReceiveBitfieldLacking(s)
    \/ \E s \in Peers : ReceiveLastBlock(s)
    \/ \E s \in Peers : ReceiveCorrupted(s)
    \/ \E s \in Peers : HaveSent(s)
    \/ \E s \in Peers : HaveFails(s)
    \/ \E s \in Peers : SocketError(s)
    \/ \E s \in Peers : ConnectionClosed(s)

Spec == Init /\ [][Next]_vars

\* The end-to-end scenarios: every remote peer is a seed, the .tmp
\* directory is empty.
Seed(has) == [kind |-> "seed", has |-> has]

\* one peer that has every piece; pieces of four blocks, batches of three
OnePeerCfg ==
    [size |-> [p \in Pieces |-> 4 * chunk_size],
     max_peers_per_piece |-> 2,
     max_batch_requests |-> 3,
     peers |-> {"A"},
     remote |-> [s \in Peers |-> Seed(Pieces)]]

\* two peers with disjoint bitfields: piece 0 on A only, the rest on B only
DisjointCfg ==
    [size |-> [p \in Pieces |-> chunk_size],
     max_peers_per_piece |-> 2,
     max_batch_requests |-> 1,
     peers |-> Peers,
     remote |-> [s \in Peers |-> Seed(IF s = "A" THEN {0} ELSE Pieces \ {0})]]

\* piece 0 on both peers, and A corrupts every block it sends; batches of two
MismatchCfg ==
    [size |-> [p \in Pieces |-> chunk_size],
     max_peers_per_piece |-> 2,
     max_batch_requests |-> 2,
     peers |-> Peers,
     remote |-> [s \in Peers |->
                    IF s = "A" THEN [kind |-> "corrupt", has |-> {0}]
                    ELSE Seed(Pieces)]]

\* (no scenario ends with every session over and a piece missing: download
\* has no failure to report in them)
SeedInit ==
    InitWith({OnePeerCfg, DisjointCfg, MismatchCfg}, {[p \in Pieces |-> "none"]})

SeedNext ==
    \/ ReadDownloadedParts
    \/ WriteFiles
    \/ \E s \in Peers : StartFinished(s)
    \/ \E s \in Peers : HandshakeOk(s)
    \/ \E s \in Peers : LoopTest(s)
    \/ \E s \in Peers : GetNoWork(s)
    \/ \E s \in Peers : GetWork(s)
    \/ \E s \in Peers : Receive(s)
    \/ \E s \in Peers : ReceiveBitfieldLacking(s)
    \/ \E s \in Peers : ReceiveLastBlock(s)
    \/ \E s \in Peers : ReceiveCorrupted(s)
    \/ \E s \in Peers : HaveSent(s)

SeedSpec == SeedInit /\ [][SeedNext]_vars

\* Every thread runs: a step a session can take is taken in the end.  A
\* session that reads from an idle connection has no step.
FairSeedSpec == SeedSpec /\ \A s \in Peers :
    WF_vars(StartFinished(s) \/ HandshakeOk(s) \/ LoopTest(s) \/ GetNoWork(s)
            \/ GetWork(s) \/ Receive(s) \/ ReceiveBitfieldLacking(s)
            \/ ReceiveLastBlock(s) \/ ReceiveCorrupted(s) \/ HaveSent(s))

\* The swarm with every thread running: a session takes in the end each
\* step that is its own to take (the loop test, get_work, the outcome of
\* connect and handshake under their 5 s timeout, the write of HAVE).  A
\* read of the piece loop waits for the remote peer: read_bytes polls
\* select without a timeout, so nothing forces it to return.
OwnStep(s) ==
    \/ StartFinished(s) \/ HandshakeOk(s) \/ HandshakeFails(s) \/ HandshakeEOF(s)
    \/ LoopTest(s) \/ GetNoWork(s) \/ GetWork(s)
    \/ HaveSent(s) \/ HaveFails(s)

FairSpec ==
    /\ Spec
    /\ WF_vars(ReadDownloadedParts \/ CouldNotDownload \/ WriteFiles)
    /\ \A s \in Peers : WF_vars(OwnStep(s))

\* One session, stepped statement by statement, whose owner may call
\* cancel_work: its peer is a seed of every piece or of piece 0 alone,
\* pieces of two blocks, batches of two.
PeerCfg(has) ==
    [size |-> [p \in Pieces |-> 2 * chunk_size],
     max_peers_per_piece |-> 1,
     max_batch_requests |-> 2,
     peers |-> {"A"},
     remote |-> [s \in Peers |-> Seed(has)]]

PeerInit == InitWith({PeerCfg(Pieces), PeerCfg({0})}, {[p \in Pieces |-> "none"]})

\* (the session starts with pieces to fetch: line 141 finds work to do)
PeerStep(s) ==
    \/ HandshakeOk(s) \/ LoopTest(s) \/ GetNoWork(s)
    \/ PeerGetWork(s) \/ DownloadStarts(s)
    \/ ReadPart(s) \/ ReadFrame(s) \/ ReadAstray(s)
    \/ ReadCancelled(s) \/ ReadCancelledBody(s)
    \/ Check(s) \/ HaveWritten(s)

PeerNext ==
    \/ ReadDownloadedParts
    \/ CouldNotDownload
    \/ WriteFiles
    \/ \E s \in Peers : PeerStep(s)
    \/ \E s \in Peers : CancelWork(s)
    \/ \E s \in Peers : RemoteChokes(s)

PeerSpec == PeerInit /\ [][PeerNext]_vars

\* Every thread runs: the session takes in the end each step it can take.
\* Nothing makes the remote peer send, nor the owner call cancel_work.
FairPeerSpec ==
    /\ PeerSpec
    /\ WF_vars(ReadDownloadedParts \/ CouldNotDownload \/ WriteFiles)
    /\ \A s \in Peers : WF_vars(PeerStep(s))

\* ------------------------------------------------------------ file assembly
\* Client._assemble_file over the part files of a finished download.  The
\* payload of file_size bytes is the bytes 1, 2, ..., no two alike.
PartFileOf(piece_size, file_size, index) ==
    [i \in 1 .. Min(piece_size, file_size - index * piece_size) |->
        index * piece_size + i]

\* the loop of lines 166-176 from piece `index` on, `written` bytes and the
\* content `out` written so far: the content of the file when it is left
RECURSIVE assemble_from(_, _, _, _, _, _)
assemble_from(piece_size, file_size, file, index, written, out) ==
    LET piece_count == (file_size + piece_size - 1) \div piece_size
        start_index == file.start \div piece_size
        start_offset == file.start % piece_size
        data == PartFileOf(piece_size, file_size, index)
        rest == Min(piece_size, file.size - written)
    IN  IF index >= piece_count THEN out
        ELSE IF index = start_index
        THEN LET head == PySlice(data, start_offset, Len(data))
             IN  assemble_from(piece_size, file_size, file, index + 1,
                               written + Len(head), out \o head)
        ELSE LET part == PySlice(data, 0, rest)
             IN  IF rest < piece_size THEN out \o part
                 ELSE assemble_from(piece_size, file_size, file, index + 1,
                                    written + Len(part), out \o part)

\* Client._assemble_file(file, output), lines 158-176
assemble_file(piece_size, file_size, file) ==
    assemble_from(piece_size, file_size, file, file.start \div piece_size, 0, << >>)

\* a file of a torrent of file_size bytes in pieces of piece_length bytes
\* is assembled
AssembleFile ==
    /\ calc = NoCall
    /\ \E file_size \in 1 .. MaxFileSize, piece_length \in 1 .. MaxPieceLength :
       \E start \in 0 .. (file_size - 1) :
       \E size \in 1 .. (file_size - start) :
           calc' = [op |-> "assemble", file_size |-> file_size,
                    piece_size |-> piece_length,
                    file |-> [start |-> start, size |-> size],
                    content |-> assemble_file(piece_length, file_size,
                                              [start |-> start, size |-> size])]
    /\ UNCHANGED << cfg, tmp_dir, writes, cpc, work_queue, work_done,
                    workers_per_work, pc, work, bitfield, choked, cancel, dl,
                    wire, sent, offset >>

\* ------------------------------------------- _download: the blocks of a piece
\* The PIECE branch of _download (lines 250-271) on its locals alone, for
\* one piece whose blocks arrive each once, in any order.
MaxBlocks == 3

\* the bytes of a piece of `size` bytes: no two alike, none zero
PieceBytes(size) == [i \in 1 .. size |-> i]

\* the begin offsets of the blocks of a piece of `size` bytes
BlockBegins(size) == {b \in 0 .. (size - 1) : b % chunk_size = 0}

\* the block of the piece that starts at begin
BlockAt(size, begin) ==
    [i \in 1 .. Min(chunk_size, size - begin) |-> PieceBytes(size)[begin + i]]

\* _download, lines 204-205: the buffer and the count of a fresh piece
PieceStarts ==
    /\ calc = NoCall
    /\ \E size \in 1 .. (MaxBlocks * chunk_size) :
           calc' = [op |-> "piece", size |-> size,
                    downloaded_data |-> [i \in 1 .. size |-> 0],
                    downloaded_bytes |-> 0,
                    order |-> << >>, checks |-> 0, hash_ok |-> FALSE]
    /\ UNCHANGED << cfg, tmp_dir, writes, cpc, work_queue, work_done,
                    workers_per_work, pc, work, bitfield, choked, cancel, dl,
                    wire, sent, offset >>

\* _download, lines 250-271: PIECE(begin, block) for a block that has not
\* arrived yet; the digest is compared when downloaded_bytes == work.size,
\* and _download returns then
PieceBlockArrives ==
    /\ calc.op = "piece" /\ calc.checks = 0
    /\ \E begin \in BlockBegins(calc.size) \ {calc.order[i] : i \in 1 .. Len(calc.order)} :
           LET data == BlockAt(calc.size, begin)
               buf == Splice(calc.downloaded_data, begin, data)
               n == calc.downloaded_bytes + Len(data)
           IN  calc' = [calc EXCEPT !.downloaded_data = buf,
                                    !.downloaded_bytes = n,
                                    !.order = Append(@, begin),
                                    !.checks = IF n = calc.size THEN @ + 1 ELSE @,
                                    !.hash_ok = (n = calc.size
                                                 /\ buf = PieceBytes(calc.size))]
    /\ UNCHANGED << cfg, tmp_dir, writes, cpc, work_queue, work_done,
                    workers_per_work, pc, work, bitfield, choked, cancel, dl,
                    wire, sent, offset >>

\* The functions outside the swarm, each called on inputs drawn from
\* bounded sets; the swarm does not move.
CalcInit == InitWith({SwarmCfg(1)}, {[p \in Pieces |-> "none"]})

CalcNext ==
    \/ GetPeers
    \/ BitfieldNew
    \/ BitfieldSetPiece
    \/ CodecRoundTrip
    \/ ReadZeroLength
    \/ TorrentFromBytes
    \/ BencodeRoundTrip
    \/ Announce
    \/ AssembleFile
    \/ HaveReceived
    \/ PieceStarts
    \/ PieceBlockArrives

CalcSpec == CalcInit /\ [][CalcNext]_vars

\* The swarm and the seed scenarios together: every run modelled.
AllInit == Init \/ SeedInit

AllSpec == AllInit /\ [][Next]_vars

\* ------------------------------------------------------------------ claims
\* C1: no piece is in both work_done and work_queue, in any reachable state
\* of the coordinator.
C1_DoneNotQueued == work_done \cap work_queue = {}

\* C2: every piece in work_done holds delivered bytes whose SHA-1 is the
\* piece's: the part file kept for it has the digest it is named by.
C2_DoneIsVerified == \A p \in work_done : tmp_dir[p] = "good"

\* C3: put_result takes effect at most once per piece: the progress update
\* and the write of the piece's bytes happen for the first call only.
C3_ResultOnce == \A p \in Pieces : writes[p] <= 1

\* C4: no piece ever has more workers than the cap get_work applies (the one
\* cap of the code, max_peers_per_piece, in end-game or not).
C4_WorkerCap ==
    \A p \in DOMAIN workers_per_work :
        Len(workers_per_work[p]) <= cfg.max_peers_per_piece

\* C4 witness: a piece holds as many workers as the cap allows while another
\* session, whose peer may have the piece, is asking for work.
C4_Witness ==
    \E p \in DOMAIN workers_per_work : \E s \in Peers :
        /\ Len(workers_per_work[p]) = cfg.max_peers_per_piece
        /\ pc[s] = "get_work"
        /\ MayHave(bitfield[s], p)
        /\ ~InList(workers_per_work[p], s)

C6_LosersCancelled ==
    [][\A s \in Peers :
          ReceiveLastBlock(s) =>
              /\ work[s] \in work_done'
              /\ ~cancel'[s]
              /\ \A x \in OtherWorkers(s, work[s]) : cancel'[x]]_vars

C7_AllShutDown ==
    has_finished ~> (\A s \in cfg.peers : pc[s] \in {"closed", "exit"})

\* C8: with one seed of every piece the download finishes, with one
\* put_result per piece.
C8_OnePeerFinishes ==
    (cfg = OnePeerCfg) => <>(has_finished /\ \A p \in Pieces : writes[p] = 1)

\* C9, as stated: with disjoint bitfields put_work is never called.
C9_NoPutWork ==
    [][(cfg = DisjointCfg) =>
          \A s \in Peers : ~ReceiveBitfieldLacking(s) /\ ~ReceiveCorrupted(s)]_vars

\* C9, amended: with disjoint bitfields a piece is delivered by the peer
\* that holds it and by no other, once at most; put_work is called, and
\* only by a session for a piece its peer lacks.
C9_OnlyHolderDelivers ==
    [][(cfg = DisjointCfg) =>
          \A s \in Peers :
              /\ (ReceiveBitfieldLacking(s) \/ ReceiveCorrupted(s))
                     => work[s] \notin cfg.remote[s].has
              /\ ReceiveLastBlock(s)
                     => work[s] \in cfg.remote[s].has /\ writes[work[s]] = 0]_vars

\* C9 witness: A was handed the piece only B holds, read A's BITFIELD and
\* returned it: A is back in its loop, still choked, the piece queued.
C9_Witness ==
    /\ cfg = DisjointCfg
    /\ pc["A"] = "loop" /\ choked["A"] /\ bitfield["A"] = << ByteOf({0}) >>
    /\ 1 \in work_queue /\ 1 \in DOMAIN workers_per_work

\* C11: a socket I/O error while a session downloads a piece, the end of
\* the stream in the middle of a frame included, makes the session return
\* the piece with put_work and terminate with its connection closed: the
\* piece is queued and the session is no worker of it.
C11_ErrorReturnsPiece ==
    [][\A s \in Peers :
          (SocketError(s) \/ ConnectionClosed(s)) =>
              /\ work[s] \in work_queue'
              /\ ~InList(Workers(workers_per_work', work[s]), s)
              /\ pc'[s] = "closed"]_vars

\* C12: a BITFIELD that does not cover the work piece makes the session
\* return the piece with put_work at once (queued, the session no worker of
\* it), with no put_result (done and the part files untouched), and the
\* session stays alive, back in its loop to ask for work.
C12_LackingReturnsPiece ==
    [][\A s \in Peers :
          ReceiveBitfieldLacking(s) =>
              /\ work[s] \in work_queue'
              /\ ~InList(Workers(workers_per_work', work[s]), s)
              /\ work_done' = work_done /\ writes' = writes /\ tmp_dir' = tmp_dir
              /\ pc'[s] = "loop" /\ work'[s] = None]_vars

\* C12 witness: B, whose peer holds every piece but 0, was handed piece 0,
\* read the BITFIELD and is back in its loop before any UNCHOKE was read,
\* piece 0 queued again and nothing done.
C12_Witness ==
    /\ cfg = DisjointCfg
    /\ pc["B"] = "loop" /\ choked["B"]
    /\ bitfield["B"] = << ByteOf(Pieces \ {0}) >>
    /\ 0 \in work_queue /\ ~InList(Workers(workers_per_work, 0), "B")
    /\ work_done = {}

\* C13: a session whose connect or handshake fails ends there: it calls no
\* get_work, put_work or put_result, so the coordinator's state and every
\* other session are as they were.
C13_FailedHandshakeEnds ==
    [][\A s \in Peers :
          (HandshakeFails(s) \/ HandshakeEOF(s)) =>
              /\ pc'[s] \in {"closed", "crashed"}
              /\ UNCHANGED << work_queue, work_done, workers_per_work, writes,
                              tmp_dir, work, bitfield, choked, cancel, dl, wire >>
              /\ \A t \in Peers \ {s} : pc'[t] = pc[t]]_vars

\* C13 witness: A's handshake has failed and its socket is closed, while no
\* get_work was ever made (no key of workers_per_work exists) and the
\* download is not finished.
C13_Witness ==
    /\ cpc = "run" /\ ~has_finished
    /\ pc["A"] = "closed" /\ pc["B"] = "start"
    /\ workers_per_work = << >>
    /\ work_queue # {}

\* C14: get_peers does not fail, whatever the trackers do, and returns the
\* endpoints with a port other than 0 that the trackers which answered
\* their START announce listed.
C14_GetPeersNeverFails ==
    calc.op = "get_peers" =>
        /\ calc.result.kind = "value"
        /\ calc.result.value =
               {peer \in UNION {calc.input[t].start.peers : t \in TrackerNames} :
                   peer.port # 0}

\* C15: download reports 'could not download file' exactly when every
\* session has ended with fewer than piece_count pieces done, the case of no
\* peers included, and starts file assembly exactly when every session has
\* ended with all of them done: it does neither before, one of them after.
C15_ReportMatchesOutcome ==
    /\ [](cpc = "failed" =>
             AllEnded /\ Cardinality(work_done) < PieceCount)
    /\ [](cpc = "write_files" =>
             AllEnded /\ Cardinality(work_done) = PieceCount)
    /\ ((cpc = "run" /\ AllEnded) ~> (cpc \in {"failed", "write_files"}))

\* C15 witness: the failure is reported after a run that had peers and
\* delivered a piece, all sessions over and a piece still missing.
C15_Witness ==
    /\ cpc = "failed" /\ cfg.peers = Peers
    /\ \E p \in Pieces : writes[p] = 1
    /\ \E p \in Pieces : p \notin work_done

\* C16: no operation removes a piece from work_done: the set only grows,
\* and has_finished, once true, stays true.
C16_DoneOnlyGrows ==
    [][/\ work_done \subseteq work_done'
       /\ (has_finished => has_finished')]_vars

\* C16 witness: every piece is done and operations went on after that (a
\* piece was returned to the queue): work_done has kept them all.
C16_Witness ==
    /\ has_finished
    /\ work_queue # {}
    /\ \E p \in Pieces : writes[p] >= 1

\* C17: from the empty bitfield and after set_piece on distinct indices,
\* has_piece(k) is true exactly for the indices set (each set(i) made has(i)
\* true and left every other index as it was), the bytes that
\* auto-extension added are zero but for the bits set, and has_piece is
\* false past the byte length, which is that of the highest index set.
C17_BitfieldSetHas ==
    calc.op = "bitfield" =>
        /\ \A k \in 0 .. (BitCount + 16) :
               has_piece(calc.value, k) <=> k \in calc.indices
        /\ \A k \in 1 .. Len(calc.value) :
               calc.value[k] =
                   ByteOf({i \in calc.indices : i \div 8 = k - 1})
        /\ \A i \in calc.indices : i \div 8 < Len(calc.value)
        /\ calc.indices # {} =>
               \E i \in calc.indices : i \div 8 = Len(calc.value) - 1

\* C17 witness: index 9 alone was set on the empty bitfield: two bytes, the
\* first one the zero that auto-extension added.
C17_Witness ==
    /\ calc.op = "bitfield"
    /\ calc.indices = {9}
    /\ calc.value = << 0, 64 >>

\* C18: for every message kind, keep-alive and the ids 0 to 8, and every
\* payload, reading the bytes that writing the message produced yields the
\* message again; and a frame whose length prefix is 0 reads as KEEP-ALIVE.
C18_CodecRoundTrip ==
    /\ calc.op = "codec" =>
           calc.read.kind = "value" /\ calc.read.value = calc.message
    /\ calc.op = "read" => calc.read = PeerMessage(M_KEEP_ALIVE, << >>)

\* C19: from_bytes builds piece_count pieces, indexed 0 .. piece_count - 1,
\* each of size piece_length but the last, whose size is
\* total_size - piece_length * (piece_count - 1).
C19_PieceSizes ==
    calc.op = "from_bytes" =>
        /\ Len(calc.pieces) = calc.piece_count
        /\ \A k \in 1 .. Len(calc.pieces) :
               /\ calc.pieces[k].index = k - 1
               /\ calc.pieces[k].size =
                      IF k < calc.piece_count THEN calc.piece_length
                      ELSE calc.file_size
                               - calc.piece_length * (calc.piece_count - 1)

\* C20: for every value built from integers, byte strings, lists and
\* string-keyed dictionaries, decode_bencode(bencode(v)) == v.
C20_BencodeRoundTrip ==
    calc.op = "bencode" =>
        /\ calc.decoded.kind = "value"
        /\ calc.decoded.value = calc.input

\* C21: get_work returns a piece only if it is in the queue, has fewer
\* workers than the cap and the caller's bitfield is empty or covers it; it
\* returns None exactly when there is no such piece.
C21_GetWorkFromQueue ==
    [][\A s \in Peers :
          /\ GetWork(s) => work'[s] \in QueueCandidates(bitfield[s])
          /\ GetNoWork(s) => QueueCandidates(bitfield[s]) = {}]_vars

\* C22: the piece get_work returns has the fewest workers of all the
\* candidates of that call.
C22_FewestWorkersFirst ==
    [][\A s \in Peers :
          GetWork(s) =>
              \A q \in Candidates(bitfield[s]) :
                  Len(Workers(workers_per_work, work'[s]))
                      <= Len(Workers(workers_per_work, q))]_vars

\* C23: between coordinator operations a piece is in the queue if and only
\* if it is not done and has a free worker slot.
C23_QueuedIffOpen ==
    cpc # "init" =>
        \A p \in Pieces :
            p \in work_queue <=>
                (p \notin work_done /\ HasSlot(Workers(workers_per_work, p)))

\* C24: a piece that is done has no worker, in every later state: get_work
\* never assigns a done piece.
C24_DoneHasNoWorker ==
    \A p \in work_done : Workers(workers_per_work, p) = << >>

\* C25: put_work(peer, piece) adds the piece to the queue and takes that
\* peer, and no other, out of the piece's workers; done, the queue
\* membership and the workers of every other piece stay as they were.
C25_PutWorkFrame ==
    [][\A s \in Peers :
          (ReceiveBitfieldLacking(s) \/ ReceiveCorrupted(s) \/ SocketError(s)
               \/ HaveFails(s)) =>
              LET p == work[s]
                  Others(x) == x # s
              IN  /\ work_queue' = work_queue \cup {p}
                  /\ Workers(workers_per_work', p)
                         = SelectSeq(Workers(workers_per_work, p), Others)
                  /\ Len(Workers(workers_per_work, p))
                         - Len(Workers(workers_per_work', p)) \in {0, 1}
                  /\ work_done' = work_done
                  /\ \A q \in Pieces \ {p} :
                         Workers(workers_per_work', q) = Workers(workers_per_work, q)]_vars

\* C25 witness: a piece that two sessions held was returned by one of them,
\* whose connection is closed: it is queued and the other session, still
\* downloading it, is its one worker.
C25_Witness ==
    \E s \in Peers : \E t \in Peers \ {s} : \E p \in Pieces :
        /\ p \in work_queue
        /\ Workers(workers_per_work, p) = << t >>
        /\ pc[t] = "download" /\ work[t] = p
        /\ pc[s] = "closed" /\ work[s] = None

\* C26: a session whose cancel flag is set for the piece it holds abandons
\* that piece with no put_work and no put_result and goes on to ask for
\* work, in every interleaving: the flag stands until the piece is left,
\* the coordinator's sets are untouched meanwhile, and the session leaves
\* the piece for its loop.
C26_CancelledAbandons ==
    [][\A s \in Peers :
          (cancel[s] /\ work[s] # None) =>
              /\ cancel'[s] \/ work'[s] # work[s]
              /\ work_queue' = work_queue /\ work_done' = work_done
              /\ writes' = writes
              /\ work'[s] = None => pc'[s] = "loop"]_vars

\* C27: a PIECE that answers a REQUEST made for a piece the session has
\* left is not copied into the buffer of the piece it works on next: the
\* buffer holds nothing but bytes sent for its own piece.
C27_StalePieceDiscarded ==
    \A s \in Peers :
        InPiece(s) =>
            \A i \in 1 .. Len(dl[s].downloaded_data) :
                dl[s].downloaded_data[i] \in {0, work[s] + 1, BadByte}

\* C28: a session whose cancel flag is set while it is in the piece loop
\* leaves the piece loop in the end, the remote peer silent or not.
C28_CancelledLeavesLoop ==
    \A s \in Peers : (cancel[s] /\ InPiece(s)) ~> ~InPiece(s)

\* C29: cancellation takes effect at a message boundary only: outside
\* PeerMessage.read the stream of the connection stands at the length
\* prefix of a frame, so the next read starts there.
C29_CancelAtFrameBoundary ==
    \A s \in Peers :
        pc[s] \notin {"read_prefix", "read_body", "crashed"} => offset[s] = "frame"

\* C30: for each work piece UNCHOKE and then INTERESTED are written before
\* any REQUEST, a REQUEST is written only while choked is false, and choked
\* starts true and changes only as a CHOKE or UNCHOKE is read, to true and
\* to false.
C30_RequestsOnlyUnchoked ==
    /\ [](\A s \in Peers :
             /\ pc[s] = "start" => choked[s]
             /\ \A i \in 1 .. Len(sent[s]) :
                    sent[s][i] = M_REQUEST =>
                        /\ i > 2
                        /\ sent[s][1] = M_UNCHOKE /\ sent[s][2] = M_INTERESTED)
    /\ [][\A s \in Peers :
             /\ (Check(s) /\ pc'[s] = "download"
                    /\ dl[s].should_request_chunks
                    /\ ~dl'[s].should_request_chunks) => ~choked[s]
             /\ choked'[s] # choked[s] =>
                    /\ ReadFrame(s) \/ ReadAstray(s)
                    /\ ReadFrame(s) =>
                           /\ Head(wire[s]).message_id \in {M_CHOKE, M_UNCHOKE}
                           /\ choked'[s] = (Head(wire[s]).message_id = M_CHOKE)]_vars

\* C30 witness: the session wrote UNCHOKE, INTERESTED and its REQUESTs while
\* unchoked, then read a CHOKE: it is choked in the piece loop, part of the
\* piece in, and no further REQUEST is due.
C30_Witness ==
    \E s \in Peers :
        /\ pc[s] = "download" /\ offset[s] = "frame" /\ choked[s]
        /\ sent[s] = << M_UNCHOKE, M_INTERESTED, M_REQUEST >>
        /\ dl[s].downloaded_bytes = chunk_size

\* the PIECE frames on their way to session s that answer REQUESTs it made
\* for the piece it holds: the blocks requested and not yet received
RECURSIVE Answers(_, _)
Answers(frames, p) ==
    IF frames = << >> THEN 0
    ELSE (IF Head(frames).message_id = M_PIECE /\ Head(frames).index = p
          THEN 1 ELSE 0) + Answers(Tail(frames), p)

InFlight(s) == IF work[s] = None THEN 0 ELSE Answers(wire[s], work[s])

\* C31: within a piece a new batch of REQUESTs is written only when every
\* block of the batch before it has been received, so a session never has
\* more than max_batch_requests blocks requested and not yet received.
C31_BatchAfterBatchReceived ==
    \A s \in Peers : InFlight(s) <= cfg.max_batch_requests

\* the batches of REQUESTs that the next turn of the piece loop can write
\* (lines 279-288), one for each message it can read
Batches(s) ==
    IF pc[s] # "download" \/ cancel[s] THEN {}
    ELSE {RequestBatch(work[s], Dispatched(s, m).dl.downloaded_bytes,
                       cfg.max_batch_requests) :
            m \in {n \in Incoming(s) :
                     /\ Outcome(s, n) = "go_on"
                     /\ Dispatched(s, n).dl.should_request_chunks
                     /\ ~Dispatched(s, n).choked
                     /\ ~RequestRaises(work[s], Dispatched(s, n).dl.downloaded_bytes)}}

\* C32: every REQUEST written for piece W has begin < W.size and length =
\* min(chunk_size, W.size - begin) >= 1; a batch holds at most
\* max_batch_requests of them and asks for no byte at or beyond W.size.
C32_RequestsWithinPiece ==
    [][\A s \in Peers : \A b \in Batches(s) :
          (Receive(s) /\ ~dl'[s].should_request_chunks
                      /\ wire'[s] = AfterRequests(s, b)) =>
              /\ Len(b) <= cfg.max_batch_requests
              /\ \A i \in 1 .. Len(b) :
                     /\ b[i].index = work[s]
                     /\ b[i].begin < SizeOf(work[s])
                     /\ b[i].length = Min(chunk_size, SizeOf(work[s]) - b[i].begin)
                     /\ b[i].length >= 1
                     /\ b[i].begin + b[i].length <= SizeOf(work[s])]_vars

\* C33: when each block of a piece arrives once, in whatever order, every
\* block that has arrived stands at its begin offset in the buffer, the
\* digest is compared once, when the last block is in, and then the buffer
\* is the content of the piece and downloaded_bytes is its size.
C33_BlocksPlacedByBegin ==
    calc.op = "piece" =>
        LET arrived == {calc.order[i] : i \in 1 .. Len(calc.order)}
        IN  /\ \A i \in 1 .. calc.size :
                   calc.downloaded_data[i] =
                       IF ((i - 1) \div chunk_size) * chunk_size \in arrived
                       THEN PieceBytes(calc.size)[i] ELSE 0
            /\ Len(calc.downloaded_data) = calc.size
            /\ calc.checks = IF arrived = BlockBegins(calc.size) THEN 1 ELSE 0
            /\ calc.checks = 1 =>
                   /\ calc.downloaded_data = PieceBytes(calc.size)
                   /\ calc.downloaded_bytes = calc.size
                   /\ calc.hash_ok

\* C33 witness: a piece of five bytes whose last and short block came
\* first and whose first block came last is complete and was checked.
C33_Witness ==
    /\ calc.op = "piece" /\ calc.size = 5
    /\ calc.order = << 4, 2, 0 >>
    /\ calc.checks = 1 /\ calc.hash_ok
    /\ calc.downloaded_data = << 1, 2, 3, 4, 5 >>

\* C34: after a session has processed HAVE(index) its remote bitfield has
\* the index, whatever the bitfield held before: the bit already set by a
\* BITFIELD or by an earlier HAVE, or the index past the current length.
C34_HaveSetsBit ==
    calc.op = "have" => has_piece(calc.value, calc.index)

Ended(s) == pc[s] \in {"closed", "crashed", "exit"}

\* self.sock was made (line 144) and close() was not called on it
SocketOpen(s) == pc[s] \notin {"start", "exit", "closed"}

\* C36: a session releases its socket on every way out of Peer.start: the
\* swarm already finished, connect or handshake failed, a socket error or
\* the end of the stream during a download, the normal shutdown.
C36_SocketReleased ==
    \A s \in Peers : Ended(s) => ~SocketOpen(s)

\* C37: file assembly writes for a file exactly the bytes
\* [file.start, file.start + file.size) of the pieces put end to end in
\* index order, whatever the file's size and offset are against the piece
\* boundaries.
C37_FileIsItsByteRange ==
    calc.op = "assemble" =>
        calc.content = [i \in 1 .. calc.file.size |-> calc.file.start + i]

\* C38: no piece is lost: once the part files were read, each piece that
\* is not done is in the queue or is the work of a session that has not
\* ended, whichever way sessions end.
C38_NoPieceLost ==
    cpc # "init" =>
        \A p \in Pieces \ work_done :
            \/ p \in work_queue
            \/ \E s \in Peers : work[s] = p /\ ~Ended(s)

====
